---- MODULE Spec2Model ----
(***************************************************************************)
(* Model of server.js: an express + socket.io relay that keeps three       *)
(* in-memory histories (coordinates, images, banner data), serves them     *)
(* over HTTP and pushes updates to the connected sockets.                  *)
(*                                                                         *)
(* Node runs every handler to completion on one thread, so each handler    *)
(* is one action.  JSON values of a request body are tagged records        *)
(* ([t |-> type, ...]) so that typeof, truthiness and === are computed as  *)
(* JavaScript computes them.                                               *)
(***************************************************************************)
EXTENDS Integers, Sequences, FiniteSets, TLC

VARIABLES
    coordinateHistory,   \* server.js:17
    imageHistory,        \* server.js:18
    bannerDataHistory,   \* server.js:19
    sockets,             \* the sockets socket.io currently holds connected
    now,                 \* number of Date.now() readings taken so far
    lastReq,             \* the request or socket event handled by the last step
    response,            \* the HTTP response written by the last step
    emitted,             \* the emit calls made by the last step, in order
    inbox,               \* per client: the events the last step delivered to it
    acceptedCoords,      \* history: coordinate records accepted since the last coordinate clear
    acceptedImages,      \* history: image records accepted since the last image clear
    imageView,           \* per connected client: its image list, kept from the events it got
    pc,                  \* where the handler in progress stands ("idle": none is in progress)
    pending              \* the record the handler in progress has created

vars == <<coordinateHistory, imageHistory, bannerDataHistory, sockets, now,
          lastReq, response, emitted, inbox, acceptedCoords, acceptedImages,
          imageView, pc, pending>>

store == <<coordinateHistory, imageHistory, bannerDataHistory>>

-----------------------------------------------------------------------------
(* Bounds and program constants *)

MAX_HISTORY_LENGTH == 100

\* accepted POSTs (Date.now() readings) explored by Spec
MaxClock == 3

\* accepted coordinate POSTs explored by SpecEvict: enough to overflow the history
MaxClockEvict == 102

\* client connections
MaxClients == 2

Clients == 1..MaxClients

-----------------------------------------------------------------------------
(* JavaScript values *)

Undefined == [t |-> "undefined", s |-> "", n |-> 0]
Null      == [t |-> "null", s |-> "", n |-> 0]
Num(k)    == [t |-> "number", s |-> "", n |-> k]
Str(x)    == [t |-> "string", s |-> x, n |-> 0]
Arr(es)   == [t |-> "array", elems |-> es]
\* a metadata object; its bannerData key is absent (<<>>) or holds one value
Obj       == [t |-> "object", bannerData |-> <<>>]

\* ToBoolean: what `!v` and `v || d` test
Truthy(v) ==
    CASE v.t = "undefined" -> FALSE
      [] v.t = "null"      -> FALSE
      [] v.t = "number"    -> v.n # 0
      [] v.t = "string"    -> v.s # ""
      [] OTHER             -> TRUE

\* reading v.bannerData: undefined (<<>>) on a primitive
bannerDataOf(v) == IF v.t = "object" THEN v.bannerData ELSE <<>>

typeof(v) ==
    CASE v.t = "null"  -> "object"
      [] v.t = "array" -> "object"
      [] OTHER         -> v.t

isArray(v) == v.t = "array"

\* array destructuring: a missing element reads as undefined
Elem(a, i) == IF i <= Len(a.elems) THEN a.elems[i] ELSE Undefined

\* destructuring default `= d`: applies when the element is undefined
Default(v, d) == IF v = Undefined THEN d ELSE v

\* [0, 1].includes(v)
includes01(v) == v.t = "number" /\ v.n \in {0, 1}

-----------------------------------------------------------------------------
(* Request inputs *)

CoordBodies ==
    { Undefined,
      Str("abc"),
      Arr(<<Num(1), Num(2)>>),
      Arr(<<Str("a"), Num(1), Num(2)>>),
      Arr(<<Num(1), Num(2), Null>>),
      Arr(<<Num(1), Num(2), Num(3)>>),
      Arr(<<Num(1), Num(2), Num(3), Num(0)>>),
      Arr(<<Num(1), Num(2), Num(3), Num(1)>>),
      Arr(<<Num(1), Num(2), Num(3), Num(2)>>),
      Arr(<<Num(1), Num(2), Num(3), Null>>),
      Arr(<<Num(1), Num(2), Num(3), Str("1")>>),
      Arr(<<Num(1), Num(2), Num(3), Num(1), Num(7)>>) }

EvictBodies ==
    { Arr(<<Num(1), Num(2)>>),
      Arr(<<Num(1), Num(2), Num(3)>>) }

ImageBodies ==
    { [imageUrl |-> Undefined, metadata |-> Obj],
      [imageUrl |-> Str(""),   metadata |-> Undefined],
      [imageUrl |-> Str("a"),  metadata |-> Undefined],
      [imageUrl |-> Str("a"),  metadata |-> Obj],
      [imageUrl |-> Str("a"),  metadata |-> Str("m")],
      [imageUrl |-> Str("b"),  metadata |-> Obj] }

BannerBodies ==
    { [imageUrl |-> Str("a"),  brand |-> Str("x"), position |-> Str("top"), type |-> Str("img")],
      [imageUrl |-> Str("b"),  brand |-> Str("x"), position |-> Str("top"), type |-> Str("img")],
      [imageUrl |-> Undefined, brand |-> Str("x"), position |-> Str("top"), type |-> Str("img")],
      [imageUrl |-> Str("a"),  brand |-> Undefined, position |-> Str("top"), type |-> Str("img")],
      [imageUrl |-> Str("a"),  brand |-> Str("x"), position |-> Str(""),    type |-> Str("img")],
      [imageUrl |-> Str("a"),  brand |-> Str("x"), position |-> Str("top"), type |-> Null] }

\* route parameters are strings
UrlParams == {Str("a"), Str("b"), Str("c")}

-----------------------------------------------------------------------------
(* Responses and events *)

NoResponse == [status |-> 0, body |-> <<>>]
Json(st, b) == [status |-> st, body |-> b]

\* to = 0: io.emit (every connected socket); to = c: socket.emit on c's socket
Event(nm, d, dest) == [name |-> nm, data |-> d, to |-> dest]

\* a client's image list after the events evs: image-history replaces it,
\* images-cleared empties it
RECURSIVE ViewAfter(_, _)
ViewAfter(view, evs) ==
    IF evs = <<>> THEN view
    ELSE ViewAfter(CASE Head(evs).name = "image-history"  -> Head(evs).data
                     [] Head(evs).name = "images-cleared" -> <<>>
                     [] OTHER -> view,
                   Tail(evs))

\* every client's image list brought up to date with this step's deliveries;
\* after: the sockets connected once the step is done.  A client starts with
\* an empty list when it connects and is forgotten when it disconnects.
Observe(after) ==
    imageView' = [c \in Clients |->
                     IF c \notin after THEN <<>>
                     ELSE ViewAfter(IF c \in sockets THEN imageView[c] ELSE <<>>,
                                    inbox'[c])]

\* mutant: the delivery loop stops at the first closed connection
IoEmitStopsAtClosed(evs) ==
    /\ emitted' = evs
    /\ inbox' = [c \in Clients |->
                    IF \A d \in Clients : d <= c => d \in sockets THEN evs ELSE <<>>]
    /\ Observe(sockets)

\* io.emit of the events evs, in order
IoEmit(evs) ==
    /\ emitted' = evs
    /\ inbox' = [c \in Clients |-> IF c \in sockets THEN evs ELSE <<>>]
    /\ Observe(sockets)

NoEmit ==
    /\ emitted' = <<>>
    /\ inbox' = [c \in Clients |-> <<>>]
    /\ Observe(sockets)

-----------------------------------------------------------------------------
Init ==
    /\ coordinateHistory = <<>>
    /\ imageHistory = <<>>
    /\ bannerDataHistory = <<>>
    /\ sockets = {}
    /\ now = 0
    /\ lastReq = [op |-> "start", arg |-> Undefined]
    /\ response = NoResponse
    /\ emitted = <<>>
    /\ inbox = [c \in Clients |-> <<>>]
    /\ acceptedCoords = <<>>
    /\ acceptedImages = <<>>
    /\ imageView = [c \in Clients |-> <<>>]
    /\ pc = "idle"
    /\ pending = <<>>

-----------------------------------------------------------------------------
(* io.on("connection") *)

\* mutant: the image history is sent even when it is empty
SeedEventsUnguarded(c) ==
    (IF Len(coordinateHistory) > 0
        THEN <<Event("coordinate-history", coordinateHistory, c)>> ELSE <<>>)
    \o <<Event("image-history", imageHistory, c)>>

SeedEvents(c) ==
    (IF Len(coordinateHistory) > 0
        THEN <<Event("coordinate-history", coordinateHistory, c)>> ELSE <<>>)
    \o
    (IF Len(imageHistory) > 0
        THEN <<Event("image-history", imageHistory, c)>> ELSE <<>>)

Connection(c) ==
    /\ c \notin sockets
    /\ sockets' = sockets \cup {c}
    /\ emitted' = SeedEvents(c)
    /\ inbox' = [d \in Clients |-> IF d = c THEN SeedEvents(c) ELSE <<>>]
    /\ Observe(sockets \cup {c})
    /\ lastReq' = [op |-> "connection", arg |-> c]
    /\ UNCHANGED <<pc, pending>>
    /\ response' = NoResponse
    /\ UNCHANGED <<store, now, acceptedCoords, acceptedImages>>

Disconnect(c) ==
    /\ c \in sockets
    /\ sockets' = sockets \ {c}
    /\ emitted' = <<>>
    /\ inbox' = [d \in Clients |-> <<>>]
    /\ Observe(sockets \ {c})
    /\ lastReq' = [op |-> "disconnect", arg |-> c]
    /\ UNCHANGED <<pc, pending>>
    /\ response' = NoResponse
    /\ UNCHANGED <<store, now, acceptedCoords, acceptedImages>>

-----------------------------------------------------------------------------
(* POST /api/coordinates *)

\* mutant: the photo capture value is not validated
CoordinatesStatusNoPhotoCheck(coordinates) ==
    IF ~Truthy(coordinates) \/ ~isArray(coordinates) \/ Len(coordinates.elems) < 3
    THEN 400
    ELSE IF \E i \in 1..3 : typeof(Elem(coordinates, i)) # "number"
         THEN 400
         ELSE 200

\* the status the validation chain ends with (200: passed)
CoordinatesStatus(coordinates) ==
    IF ~Truthy(coordinates) \/ ~isArray(coordinates) \/ Len(coordinates.elems) < 3
    THEN 400
    ELSE LET distance == Elem(coordinates, 1)
             x == Elem(coordinates, 2)
             z == Elem(coordinates, 3)
             photoCapture == Default(Elem(coordinates, 4), Num(0))
         IN  IF typeof(distance) # "number" \/ typeof(x) # "number" \/ typeof(z) # "number"
             THEN 400
             ELSE IF photoCapture # Undefined /\ ~includes01(photoCapture)
                  THEN 400
                  ELSE 200

coordinateData(coordinates, timestamp) ==
    LET photoCapture == Default(Elem(coordinates, 4), Num(0))
    IN  [distance     |-> Elem(coordinates, 1).n,
         x            |-> Elem(coordinates, 2).n,
         z            |-> Elem(coordinates, 3).n,
         photoCapture |-> IF Truthy(photoCapture) THEN photoCapture.n ELSE 0,
         timestamp    |-> timestamp]

\* mutant: the push without the shift
addCoordinateNoShift(history, rec) == Append(history, rec)

\* mutant: pop instead of shift, the newest record is the one dropped
addCoordinatePop(history, rec) ==
    LET pushed == Append(history, rec)
    IN  IF Len(pushed) > MAX_HISTORY_LENGTH THEN SubSeq(pushed, 1, Len(pushed) - 1) ELSE pushed

\* push, then shift once the length exceeds the maximum
addCoordinate(history, rec) ==
    LET pushed == Append(history, rec)
    IN  IF Len(pushed) > MAX_HISTORY_LENGTH THEN Tail(pushed) ELSE pushed

\* mutant: the history is re-broadcast after the new record, as for images
PostCoordinatesWithHistory(coordinates) ==
    /\ lastReq' = [op |-> "postCoordinates", arg |-> coordinates]
    /\ UNCHANGED <<pc, pending>>
    /\ UNCHANGED <<imageHistory, bannerDataHistory, sockets, acceptedImages>>
    /\ IF CoordinatesStatus(coordinates) = 400
       THEN /\ response' = Json(400, <<>>)
            /\ NoEmit
            /\ UNCHANGED <<coordinateHistory, now, acceptedCoords>>
       ELSE LET rec == coordinateData(coordinates, now + 1)
            IN  /\ now' = now + 1
                /\ coordinateHistory' = addCoordinate(coordinateHistory, rec)
                /\ acceptedCoords' = Append(acceptedCoords, rec)
                /\ IoEmit(<<Event("new-coordinate", <<rec>>, 0),
                            Event("coordinate-history", coordinateHistory', 0)>>)
                /\ response' = Json(200, <<>>)

PostCoordinates(coordinates) ==
    /\ lastReq' = [op |-> "postCoordinates", arg |-> coordinates]
    /\ UNCHANGED <<pc, pending>>
    /\ UNCHANGED <<imageHistory, bannerDataHistory, sockets, acceptedImages>>
    /\ IF CoordinatesStatus(coordinates) = 400
       THEN /\ response' = Json(400, <<>>)
            /\ NoEmit
            /\ UNCHANGED <<coordinateHistory, now, acceptedCoords>>
       ELSE LET rec == coordinateData(coordinates, now + 1)
            IN  /\ now' = now + 1
                /\ coordinateHistory' = addCoordinate(coordinateHistory, rec)
                /\ acceptedCoords' = Append(acceptedCoords, rec)
                /\ IoEmit(<<Event("new-coordinate", <<rec>>, 0)>>)
                /\ response' = Json(200, <<>>)

-----------------------------------------------------------------------------
(* POST /api/image *)

\* mutant: a banner already stored for the url is attached when the image is posted
imageDataWithBanner(body, timestamp) ==
    [url       |-> body.imageUrl,
     metadata  |-> IF Truthy(body.metadata) /\ body.metadata.t # "object"
                   THEN body.metadata
                   ELSE LET m == SelectSeq(bannerDataHistory,
                                           LAMBDA b : b.imageUrl = body.imageUrl)
                        IN  [Obj EXCEPT !.bannerData =
                                IF m = <<>> THEN <<>> ELSE <<Head(m)>>],
     timestamp |-> timestamp]

imageData(body, timestamp) ==
    [url       |-> body.imageUrl,
     metadata  |-> IF Truthy(body.metadata) THEN body.metadata ELSE Obj,
     timestamp |-> timestamp]

\* mutant: push instead of unshift
addImagePush(history, rec) == Append(history, rec)

\* unshift: the newest record goes to the front, nothing is removed
addImage(history, rec) == <<rec>> \o history

\* mutant: the history is broadcast before the new record
ImageEventsSwapped(rec, history) ==
    <<Event("image-history", history, 0), Event("new-image", <<rec>>, 0)>>

\* mutant: only the new record is broadcast
ImageEventsNewOnly(rec, history) == <<Event("new-image", <<rec>>, 0)>>

\* the two broadcasts of an accepted image POST, in emit order
ImageEvents(rec, history) ==
    <<Event("new-image", <<rec>>, 0), Event("image-history", history, 0)>>

PostImage(body) ==
    /\ lastReq' = [op |-> "postImage", arg |-> body]
    /\ UNCHANGED <<pc, pending>>
    /\ UNCHANGED <<coordinateHistory, bannerDataHistory, sockets, acceptedCoords>>
    /\ IF ~Truthy(body.imageUrl)
       THEN /\ response' = Json(400, <<>>)
            /\ NoEmit
            /\ UNCHANGED <<imageHistory, now, acceptedImages>>
       ELSE LET rec == imageData(body, now + 1)
            IN  /\ now' = now + 1
                /\ imageHistory' = addImage(imageHistory, rec)
                /\ acceptedImages' = Append(acceptedImages, rec)
                /\ IoEmit(ImageEvents(rec, imageHistory'))
                /\ response' = Json(200, <<>>)

-----------------------------------------------------------------------------
(* POST /api/banner_data *)

bannerData(body, timestamp) ==
    [imageUrl  |-> body.imageUrl,
     brand     |-> body.brand,
     position  |-> body.position,
     type      |-> body.type,
     timestamp |-> timestamp]

\* mutant: the last match instead of the first
findLastIndex(history, imageUrl) ==
    LET hits == {i \in 1..Len(history) : history[i].url = imageUrl}
    IN  IF hits = {} THEN 0 ELSE CHOOSE i \in hits : \A j \in hits : i >= j

\* imageHistory.findIndex(img => img.url === imageUrl); 1-based, 0 for JavaScript's -1
findIndex(history, imageUrl) ==
    LET hits == {i \in 1..Len(history) : history[i].url = imageUrl}
    IN  IF hits = {} THEN 0 ELSE CHOOSE i \in hits : \A j \in hits : i <= j

\* metadata.bannerData = banner; the script is not in strict mode, so the
\* assignment to a property of a primitive metadata value is silently dropped
setBannerData(metadata, banner) ==
    IF metadata.t = "object"
    THEN [metadata EXCEPT !.bannerData = <<banner>>]
    ELSE metadata

attachBanner(history, imageIndex, banner) ==
    [history EXCEPT ![imageIndex].metadata = setBannerData(@, banner)]

\* mutant: the record is stored before the fields are validated
PostBannerDataStoresFirst(body) ==
    /\ lastReq' = [op |-> "postBannerData", arg |-> body]
    /\ UNCHANGED <<pc, pending>>
    /\ UNCHANGED <<coordinateHistory, sockets, acceptedCoords, acceptedImages>>
    /\ LET rec == bannerData(body, now + 1)
           imageIndex == findIndex(imageHistory, body.imageUrl)
       IN  /\ now' = now + 1
           /\ bannerDataHistory' = Append(bannerDataHistory, rec)
           /\ IF ~Truthy(body.imageUrl) \/ ~Truthy(body.brand)
                 \/ ~Truthy(body.position) \/ ~Truthy(body.type)
              THEN /\ response' = Json(400, <<>>)
                   /\ NoEmit
                   /\ UNCHANGED imageHistory
              ELSE /\ IF imageIndex # 0
                      THEN /\ imageHistory' = attachBanner(imageHistory, imageIndex, rec)
                           /\ IoEmit(<<Event("image-history", imageHistory', 0)>>)
                      ELSE /\ UNCHANGED imageHistory
                           /\ NoEmit
                   /\ response' = Json(201, <<rec>>)

PostBannerData(body) ==
    /\ lastReq' = [op |-> "postBannerData", arg |-> body]
    /\ UNCHANGED <<pc, pending>>
    /\ UNCHANGED <<coordinateHistory, sockets, acceptedCoords, acceptedImages>>
    /\ IF ~Truthy(body.imageUrl) \/ ~Truthy(body.brand)
          \/ ~Truthy(body.position) \/ ~Truthy(body.type)
       THEN /\ response' = Json(400, <<>>)
            /\ NoEmit
            /\ UNCHANGED <<imageHistory, bannerDataHistory, now>>
       ELSE LET rec == bannerData(body, now + 1)
                imageIndex == findIndex(imageHistory, body.imageUrl)
            IN  /\ now' = now + 1
                /\ bannerDataHistory' = Append(bannerDataHistory, rec)
                /\ IF imageIndex # 0
                   THEN /\ imageHistory' = attachBanner(imageHistory, imageIndex, rec)
                        /\ IoEmit(<<Event("image-history", imageHistory', 0)>>)
                   ELSE /\ UNCHANGED imageHistory
                        /\ NoEmit
                /\ response' = Json(201, <<rec>>)

-----------------------------------------------------------------------------
(* GET routes *)

Get(op, arg, res) ==
    /\ lastReq' = [op |-> op, arg |-> arg]
    /\ UNCHANGED <<pc, pending>>
    /\ response' = res
    /\ NoEmit
    /\ UNCHANGED <<store, sockets, now, acceptedCoords, acceptedImages>>

GetCoordinates == Get("getCoordinates", Undefined, Json(200, coordinateHistory))

GetImages == Get("getImages", Undefined, Json(200, imageHistory))

GetBannerData == Get("getBannerData", Undefined, Json(200, bannerDataHistory))

\* mutant: the last match instead of the first
findLast(history, imageUrl) ==
    LET hits == {i \in 1..Len(history) : history[i].imageUrl = imageUrl}
    IN  IF hits = {} THEN <<>>
        ELSE <<history[CHOOSE i \in hits : \A j \in hits : i >= j]>>

\* bannerDataHistory.find(item => item.imageUrl === imageUrl): <<>> for undefined
find(history, imageUrl) ==
    LET hits == {i \in 1..Len(history) : history[i].imageUrl = imageUrl}
    IN  IF hits = {} THEN <<>>
        ELSE <<history[CHOOSE i \in hits : \A j \in hits : i <= j]>>

BannerDataResponse(data) ==
    IF data # <<>> THEN Json(200, data) ELSE Json(404, <<>>)

GetBannerDataFor(imageUrl) ==
    Get("getBannerDataFor", imageUrl, BannerDataResponse(find(bannerDataHistory, imageUrl)))

-----------------------------------------------------------------------------
(* DELETE routes *)

\* mutant: the coordinate clear also drops the images
DeleteCoordinatesClearsImages ==
    /\ lastReq' = [op |-> "deleteCoordinates", arg |-> Undefined]
    /\ UNCHANGED <<pc, pending>>
    /\ coordinateHistory' = <<>>
    /\ imageHistory' = <<>>
    /\ acceptedCoords' = <<>>
    /\ acceptedImages' = <<>>
    /\ IoEmit(<<Event("coordinates-cleared", <<>>, 0)>>)
    /\ response' = Json(200, <<>>)
    /\ UNCHANGED <<bannerDataHistory, sockets, now>>

DeleteCoordinates ==
    /\ lastReq' = [op |-> "deleteCoordinates", arg |-> Undefined]
    /\ UNCHANGED <<pc, pending>>
    /\ coordinateHistory' = <<>>
    /\ acceptedCoords' = <<>>
    /\ IoEmit(<<Event("coordinates-cleared", <<>>, 0)>>)
    /\ response' = Json(200, <<>>)
    /\ UNCHANGED <<imageHistory, bannerDataHistory, sockets, now, acceptedImages>>

\* mutant: the image clear also drops the banner data
DeleteImagesClearsBanners ==
    /\ lastReq' = [op |-> "deleteImages", arg |-> Undefined]
    /\ UNCHANGED <<pc, pending>>
    /\ imageHistory' = <<>>
    /\ bannerDataHistory' = <<>>
    /\ acceptedImages' = <<>>
    /\ IoEmit(<<Event("images-cleared", <<>>, 0)>>)
    /\ response' = Json(200, <<>>)
    /\ UNCHANGED <<coordinateHistory, sockets, now, acceptedCoords>>

DeleteImages ==
    /\ lastReq' = [op |-> "deleteImages", arg |-> Undefined]
    /\ UNCHANGED <<pc, pending>>
    /\ imageHistory' = <<>>
    /\ acceptedImages' = <<>>
    /\ IoEmit(<<Event("images-cleared", <<>>, 0)>>)
    /\ response' = Json(200, <<>>)
    /\ UNCHANGED <<coordinateHistory, bannerDataHistory, sockets, now, acceptedCoords>>

\* mutant: the banner data is not cleared
DeleteAllKeepsBanners ==
    /\ lastReq' = [op |-> "deleteAll", arg |-> Undefined]
    /\ UNCHANGED <<pc, pending>>
    /\ coordinateHistory' = <<>>
    /\ imageHistory' = <<>>
    /\ acceptedCoords' = <<>>
    /\ acceptedImages' = <<>>
    /\ IoEmit(<<Event("coordinates-cleared", <<>>, 0), Event("images-cleared", <<>>, 0)>>)
    /\ response' = Json(200, <<>>)
    /\ UNCHANGED <<bannerDataHistory, sockets, now>>

DeleteAll ==
    /\ lastReq' = [op |-> "deleteAll", arg |-> Undefined]
    /\ UNCHANGED <<pc, pending>>
    /\ coordinateHistory' = <<>>
    /\ imageHistory' = <<>>
    /\ bannerDataHistory' = <<>>
    /\ acceptedCoords' = <<>>
    /\ acceptedImages' = <<>>
    /\ IoEmit(<<Event("coordinates-cleared", <<>>, 0), Event("images-cleared", <<>>, 0)>>)
    /\ response' = Json(200, <<>>)
    /\ UNCHANGED <<sockets, now>>

-----------------------------------------------------------------------------
(* The POST handlers statement by statement *)

\* mutant: an await between storing the banner and attaching it
AwaitAfterBannerStored == {"bannerStored"}

\* the positions inside a handler at which it awaits, so that the event loop
\* may run another callback before it resumes: the handlers contain no await
\* and no callback
AwaitPoints == {}

\* the event loop starts a callback only when no handler is running: the
\* last one has returned or is suspended at an await
Ready == pc = "idle" \/ pc \in AwaitPoints

\* lines 44-89: validate, build the record, push and shift
CoordinatesBegin(coordinates) ==
    /\ Ready
    /\ lastReq' = [op |-> "postCoordinates", arg |-> coordinates]
    /\ NoEmit
    /\ UNCHANGED <<imageHistory, bannerDataHistory, sockets, acceptedImages>>
    /\ IF CoordinatesStatus(coordinates) = 400
       THEN /\ response' = Json(400, <<>>)
            /\ UNCHANGED <<coordinateHistory, now, acceptedCoords, pc, pending>>
       ELSE LET rec == coordinateData(coordinates, now + 1)
            IN  /\ now' = now + 1
                /\ coordinateHistory' = addCoordinate(coordinateHistory, rec)
                /\ acceptedCoords' = Append(acceptedCoords, rec)
                /\ response' = NoResponse
                /\ pc' = "coordinateStored"
                /\ pending' = <<rec>>

\* lines 92-94: broadcast and respond
CoordinatesEmit ==
    /\ pc = "coordinateStored"
    /\ IoEmit(<<Event("new-coordinate", pending, 0)>>)
    /\ response' = Json(200, <<>>)
    /\ pc' = "idle"
    /\ pending' = <<>>
    /\ UNCHANGED <<store, sockets, now, lastReq, acceptedCoords, acceptedImages>>

\* lines 99-115: validate, build the record, unshift
ImageBegin(body) ==
    /\ Ready
    /\ lastReq' = [op |-> "postImage", arg |-> body]
    /\ NoEmit
    /\ UNCHANGED <<coordinateHistory, bannerDataHistory, sockets, acceptedCoords>>
    /\ IF ~Truthy(body.imageUrl)
       THEN /\ response' = Json(400, <<>>)
            /\ UNCHANGED <<imageHistory, now, acceptedImages, pc, pending>>
       ELSE LET rec == imageData(body, now + 1)
            IN  /\ now' = now + 1
                /\ imageHistory' = addImage(imageHistory, rec)
                /\ acceptedImages' = Append(acceptedImages, rec)
                /\ response' = NoResponse
                /\ pc' = "imageStored"
                /\ pending' = <<rec>>

\* line 118
ImageEmitNew ==
    /\ pc = "imageStored"
    /\ IoEmit(<<Event("new-image", pending, 0)>>)
    /\ pc' = "imageAnnounced"
    /\ UNCHANGED <<store, sockets, now, lastReq, response, pending,
                   acceptedCoords, acceptedImages>>

\* lines 119-121
ImageEmitHistory ==
    /\ pc = "imageAnnounced"
    /\ IoEmit(<<Event("image-history", imageHistory, 0)>>)
    /\ response' = Json(200, <<>>)
    /\ pc' = "idle"
    /\ pending' = <<>>
    /\ UNCHANGED <<store, sockets, now, lastReq, acceptedCoords, acceptedImages>>

\* lines 126-143: validate, build the record, push
BannerBegin(body) ==
    /\ Ready
    /\ lastReq' = [op |-> "postBannerData", arg |-> body]
    /\ NoEmit
    /\ UNCHANGED <<coordinateHistory, imageHistory, sockets, acceptedCoords, acceptedImages>>
    /\ IF ~Truthy(body.imageUrl) \/ ~Truthy(body.brand)
          \/ ~Truthy(body.position) \/ ~Truthy(body.type)
       THEN /\ response' = Json(400, <<>>)
            /\ UNCHANGED <<bannerDataHistory, now, pc, pending>>
       ELSE LET rec == bannerData(body, now + 1)
            IN  /\ now' = now + 1
                /\ bannerDataHistory' = Append(bannerDataHistory, rec)
                /\ response' = NoResponse
                /\ pc' = "bannerStored"
                /\ pending' = <<rec>>

\* lines 146-148, and line 154 when no image matches
BannerAttach ==
    /\ pc = "bannerStored"
    /\ NoEmit
    /\ LET imageIndex == findIndex(imageHistory, pending[1].imageUrl)
       IN  IF imageIndex # 0
           THEN /\ imageHistory' = attachBanner(imageHistory, imageIndex, pending[1])
                /\ pc' = "bannerAttached"
                /\ UNCHANGED <<response, pending>>
           ELSE /\ response' = Json(201, pending)
                /\ pc' = "idle"
                /\ pending' = <<>>
                /\ UNCHANGED imageHistory
    /\ UNCHANGED <<coordinateHistory, bannerDataHistory, sockets, now, lastReq,
                   acceptedCoords, acceptedImages>>

\* lines 151-154
BannerEmit ==
    /\ pc = "bannerAttached"
    /\ IoEmit(<<Event("image-history", imageHistory, 0)>>)
    /\ response' = Json(201, pending)
    /\ pc' = "idle"
    /\ pending' = <<>>
    /\ UNCHANGED <<store, sockets, now, lastReq, acceptedCoords, acceptedImages>>

-----------------------------------------------------------------------------
(* Specifications *)

\* every route and socket event, over all request inputs
Next ==
    \/ \E c \in Clients : Connection(c)
    \/ \E c \in Clients : Disconnect(c)
    \/ now < MaxClock /\ \E b \in CoordBodies : PostCoordinates(b)
    \/ now < MaxClock /\ \E b \in ImageBodies : PostImage(b)
    \/ now < MaxClock /\ \E b \in BannerBodies : PostBannerData(b)
    \/ GetCoordinates
    \/ GetImages
    \/ GetBannerData
    \/ \E u \in UrlParams : GetBannerDataFor(u)
    \/ DeleteCoordinates
    \/ DeleteImages
    \/ DeleteAll

Spec == Init /\ [][Next]_vars

\* the routes and events that read or write the coordinate history, run long
\* enough for the history to overflow
NextEvict ==
    \/ \E c \in Clients : Connection(c)
    \/ \E c \in Clients : Disconnect(c)
    \/ now < MaxClockEvict /\ \E b \in EvictBodies : PostCoordinates(b)
    \/ GetCoordinates
    \/ DeleteCoordinates
    \/ DeleteAll

SpecEvict == Init /\ [][NextEvict]_vars

\* the POST handlers taken statement by statement; the event loop starts the
\* other callbacks only when it is Ready
NextSteps ==
    \/ now < MaxClock /\ \E b \in EvictBodies : CoordinatesBegin(b)
    \/ CoordinatesEmit
    \/ now < MaxClock /\ \E b \in ImageBodies : ImageBegin(b)
    \/ ImageEmitNew
    \/ ImageEmitHistory
    \/ now < MaxClock /\ \E b \in BannerBodies : BannerBegin(b)
    \/ BannerAttach
    \/ BannerEmit
    \/ Ready /\ \E c \in Clients : Connection(c)
    \/ Ready /\ \E c \in Clients : Disconnect(c)
    \/ Ready /\ GetCoordinates
    \/ Ready /\ GetImages
    \/ Ready /\ GetBannerData
    \/ Ready /\ \E u \in UrlParams : GetBannerDataFor(u)
    \/ Ready /\ DeleteCoordinates
    \/ Ready /\ DeleteImages
    \/ Ready /\ DeleteAll

SpecSteps == Init /\ [][NextSteps]_vars

-----------------------------------------------------------------------------
(* Claims *)

Min(a, b) == IF a <= b THEN a ELSE b

Reverse(q) == [i \in 1..Len(q) |-> q[Len(q) + 1 - i]]

Range(q) == {q[i] : i \in 1..Len(q)}

Accepted200 == response.status = 200

\* C1: in every reachable state the stored coordinate sequence has at most
\* 100 entries.
C1_CoordinateBound == Len(coordinateHistory) <= MAX_HISTORY_LENGTH

\* more than 100 records were accepted since the last clear and 100 are stored
C1_Witness ==
    /\ Len(acceptedCoords) > MAX_HISTORY_LENGTH
    /\ Len(coordinateHistory) = MAX_HISTORY_LENGTH

\* C2: after n accepted coordinate POSTs since the last coordinate clear the
\* stored sequence is exactly the last min(n, 100) accepted records, in
\* arrival order (oldest-first eviction).
C2_OldestFirstEviction ==
    LET n == Len(acceptedCoords)
        k == Min(n, MAX_HISTORY_LENGTH)
    IN  coordinateHistory = SubSeq(acceptedCoords, n - k + 1, n)

\* the 101st accepted POST: the first record is gone, the 101st is last
C2_Witness ==
    /\ lastReq.op = "postCoordinates"
    /\ Accepted200
    /\ Len(acceptedCoords) = MAX_HISTORY_LENGTH + 1
    /\ acceptedCoords[1] \notin Range(coordinateHistory)
    /\ coordinateHistory[Len(coordinateHistory)] = acceptedCoords[MAX_HISTORY_LENGTH + 1]

\* an image record as it was posted: without the bannerData attached later
AsPosted(img) ==
    IF img.metadata.t = "object"
    THEN [img EXCEPT !.metadata.bannerData = <<>>]
    ELSE img

\* C3: the stored image sequence is exactly the image records accepted since
\* the last image clear, newest first; no POST removes or reorders one.
C3_ImagesNewestFirst ==
    [i \in 1..Len(imageHistory) |-> AsPosted(imageHistory[i])] = Reverse(acceptedImages)

\* image a, then image b, then a banner for a: the sequence is [b, a]
C3_Witness ==
    /\ lastReq.op = "postBannerData"
    /\ response.status = 201
    /\ Len(imageHistory) = 2
    /\ imageHistory[1].url = Str("b")
    /\ imageHistory[2].url = Str("a")
    /\ imageHistory[2].metadata.t = "object"
    /\ imageHistory[2].metadata.bannerData # <<>>

\* the step just taken is an accepted POST /api/banner_data
BannerAccepted == lastReq'.op = "postBannerData" /\ response'.status = 201

\* the banner record the accepted POST created
NewBanner == bannerData(lastReq'.arg, now')

\* positions of the stored images whose url is the banner's imageUrl
Matches == {i \in 1..Len(imageHistory) : imageHistory[i].url = lastReq'.arg.imageUrl}

\* C4: an accepted POST /api/banner_data appends the record to the banner
\* sequence; if a stored image has the banner's imageUrl, that image's
\* metadata.bannerData becomes the new record; if none has, every image
\* record is unchanged.
C4_BannerAttach ==
    [][BannerAccepted =>
         /\ bannerDataHistory' = Append(bannerDataHistory, NewBanner)
         /\ Len(imageHistory') = Len(imageHistory)
         /\ Matches # {} =>
               \E i \in Matches :
                   bannerDataOf(imageHistory'[i].metadata) = <<NewBanner>>
         /\ Matches = {} => imageHistory' = imageHistory]_vars

\* C5: an accepted banner POST changes at most one image record, and only
\* the first (newest) one with the banner's imageUrl: the record that gets
\* metadata.bannerData is that one, every other record is unchanged.
C5_FirstMatchOnly ==
    [][BannerAccepted =>
         /\ Len(imageHistory') = Len(imageHistory)
         /\ \A i \in 1..Len(imageHistory) :
               \/ imageHistory'[i] = imageHistory[i]
               \/ /\ i \in Matches
                  /\ \A j \in Matches : i <= j
                  /\ bannerDataOf(imageHistory'[i].metadata) = <<NewBanner>>
                  /\ imageHistory'[i] = [imageHistory[i] EXCEPT !.metadata.bannerData = <<NewBanner>>]]_vars

\* two stored images share the banner's url: the newer carries the banner,
\* the older does not
C5_Witness ==
    /\ lastReq.op = "postBannerData"
    /\ response.status = 201
    /\ Len(imageHistory) = 2
    /\ imageHistory[1].url = lastReq.arg.imageUrl
    /\ imageHistory[2].url = lastReq.arg.imageUrl
    /\ bannerDataOf(imageHistory[1].metadata) = response.body
    /\ bannerDataOf(imageHistory[2].metadata) = <<>>

\* positions of the stored banner records with the requested imageUrl
BannerHits(imageUrl) ==
    {i \in 1..Len(bannerDataHistory) : bannerDataHistory[i].imageUrl = imageUrl}

\* C6: GET /api/banner_data/:imageUrl answers 200 with the earliest stored
\* banner record whose imageUrl is the parameter, 404 exactly when there is
\* none, and changes no state.
C6_FindBanner ==
    [][lastReq'.op = "getBannerDataFor" =>
         LET hits == BannerHits(lastReq'.arg)
         IN  /\ UNCHANGED <<store, sockets>>
             /\ emitted' = <<>>
             /\ (response'.status = 404) <=> (hits = {})
             /\ response'.status \in {200, 404}
             /\ hits # {} =>
                   \E i \in hits :
                       /\ \A j \in hits : i <= j
                       /\ response'.body = <<bannerDataHistory[i]>>]_vars

\* two banner records for the requested url are stored: the earlier is returned
C6_Witness ==
    /\ lastReq.op = "getBannerDataFor"
    /\ response.status = 200
    /\ Cardinality(BannerHits(lastReq.arg)) = 2
    /\ response.body = <<bannerDataHistory[1]>>
    /\ bannerDataHistory[2] # bannerDataHistory[1]

\* the requested url is not among the stored banners, others are: 404
C6_Witness404 ==
    /\ lastReq.op = "getBannerDataFor"
    /\ response.status = 404
    /\ bannerDataHistory # <<>>

\* the request body the claim C7 calls acceptable
WellFormed(c) ==
    /\ c.t = "array"
    /\ Len(c.elems) >= 3
    /\ \A i \in 1..3 : c.elems[i].t = "number"
    /\ Len(c.elems) >= 4 => (c.elems[4].t = "number" /\ c.elems[4].n \in {0, 1})

\* C7: POST /api/coordinates answers 200 exactly when coordinates is an array
\* of at least 3 elements whose first three are numbers and whose fourth is
\* absent, 0 or 1, and 400 otherwise; the stored record has the three numbers
\* and the fourth element as photoCapture, 0 when it is absent.
C7_CoordinateValidation ==
    lastReq.op = "postCoordinates" =>
        /\ response.status \in {200, 400}
        /\ (response.status = 200) <=> WellFormed(lastReq.arg)
        /\ response.status = 200 =>
              LET c == lastReq.arg.elems
                  stored == coordinateHistory[Len(coordinateHistory)]
              IN  /\ coordinateHistory # <<>>
                  /\ stored.distance = c[1].n
                  /\ stored.x = c[2].n
                  /\ stored.z = c[3].n
                  /\ stored.photoCapture = (IF Len(c) >= 4 THEN c[4].n ELSE 0)

\* [1, 2, 3] is accepted and stored with photoCapture 0
C7_Witness ==
    /\ lastReq.op = "postCoordinates"
    /\ lastReq.arg = Arr(<<Num(1), Num(2), Num(3)>>)
    /\ response.status = 200
    /\ coordinateHistory[Len(coordinateHistory)].photoCapture = 0

AllEmpty == coordinateHistory = <<>> /\ imageHistory = <<>> /\ bannerDataHistory = <<>>

\* the step just taken is an accepted POST
PostAccepted ==
    /\ lastReq'.op \in {"postCoordinates", "postImage", "postBannerData"}
    /\ response'.status \in {200, 201}

ClearedEvents ==
    <<Event("coordinates-cleared", <<>>, 0), Event("images-cleared", <<>>, 0)>>

\* C8: DELETE /api/all leaves the three sequences empty and broadcasts exactly
\* coordinates-cleared then images-cleared; from then on, until an accepted
\* POST, the sequences stay empty and the three list GETs return empty
\* sequences.
C8_DeleteAll ==
    [][/\ lastReq'.op = "deleteAll" =>
             /\ AllEmpty'
             /\ response'.status = 200
             /\ emitted' = ClearedEvents
             /\ \A c \in sockets : inbox'[c] = ClearedEvents
       /\ (AllEmpty /\ ~PostAccepted) =>
             /\ AllEmpty'
             /\ lastReq'.op \in {"getCoordinates", "getImages", "getBannerData"} =>
                   response' = Json(200, <<>>)]_vars

\* DELETE /api/all after three accepted POSTs, with both clients connected
C8_Witness ==
    /\ lastReq.op = "deleteAll"
    /\ now >= 3
    /\ AllEmpty
    /\ sockets = Clients
    /\ \A c \in Clients : inbox[c] = ClearedEvents

\* the events of the given name among evs
Named(evs, nm) == SelectSeq(evs, LAMBDA e : e.name = nm)

\* C9: on connect the client gets coordinate-history iff the coordinate
\* sequence is non-empty and image-history iff the image sequence is
\* non-empty, each once and with the full current sequence, and nothing
\* else; no other connection gets anything.
C9_ConnectSeed ==
    lastReq.op = "connection" =>
        LET c == lastReq.arg
            evs == inbox[c]
        IN  /\ c \in sockets
            /\ Len(Named(evs, "coordinate-history")) = (IF coordinateHistory # <<>> THEN 1 ELSE 0)
            /\ Len(Named(evs, "image-history")) = (IF imageHistory # <<>> THEN 1 ELSE 0)
            /\ \A i \in 1..Len(evs) :
                  \/ evs[i].name = "coordinate-history" /\ evs[i].data = coordinateHistory
                  \/ evs[i].name = "image-history" /\ evs[i].data = imageHistory
            /\ \A i \in 1..Len(emitted) : emitted[i].to = c
            /\ \A d \in Clients \ {c} : inbox[d] = <<>>

\* a client connects after 2 coordinate posts and 1 image post, while
\* another client is connected: it alone gets both seeds
C9_Witness ==
    /\ lastReq.op = "connection"
    /\ Len(coordinateHistory) = 2
    /\ Len(imageHistory) = 1
    /\ Cardinality(sockets) = 2
    /\ Len(inbox[lastReq.arg]) = 2

\* a client connects while both sequences are empty and banners are stored
C9_WitnessEmpty ==
    /\ lastReq.op = "connection"
    /\ coordinateHistory = <<>>
    /\ imageHistory = <<>>
    /\ bannerDataHistory # <<>>
    /\ inbox[lastReq.arg] = <<>>

\* C10: an accepted POST /api/image delivers to every connected client a
\* new-image event with the new record and then an image-history event with
\* the full image sequence, whose first element is that record.
C10_ImageBroadcast ==
    (lastReq.op = "postImage" /\ response.status = 200) =>
        /\ imageHistory # <<>>
        /\ imageHistory[1].url = lastReq.arg.imageUrl
        /\ imageHistory[1].timestamp = now
        /\ \A c \in sockets :
              /\ Len(inbox[c]) = 2
              /\ inbox[c][1].name = "new-image"
              /\ inbox[c][1].data = <<imageHistory[1]>>
              /\ inbox[c][2].name = "image-history"
              /\ inbox[c][2].data = imageHistory
              /\ inbox[c][2].data[1] = inbox[c][1].data[1]

\* the second image is posted while two clients are connected
C10_Witness ==
    /\ lastReq.op = "postImage"
    /\ response.status = 200
    /\ Cardinality(sockets) = 2
    /\ Len(imageHistory) = 2
    /\ \A c \in sockets : Len(inbox[c]) = 2

\* C11: an accepted POST /api/banner_data answers 201 with the stored record;
\* it broadcasts one image-history event, carrying the image sequence with the
\* banner already attached, to all connections iff it updated an image, and
\* emits nothing when no image matches; no other event is ever emitted.
C11_BannerBroadcast ==
    [][BannerAccepted =>
         /\ response' = Json(201, <<NewBanner>>)
         /\ bannerDataHistory'[Len(bannerDataHistory')] = NewBanner
         /\ emitted' \in {<<>>, <<Event("image-history", imageHistory', 0)>>}
         /\ (emitted' # <<>>) <=> (imageHistory' # imageHistory)
         /\ emitted' # <<>> =>
               /\ \E i \in Matches :
                     bannerDataOf(imageHistory'[i].metadata) = <<NewBanner>>
               /\ \A c \in sockets : inbox'[c] = emitted'
         /\ Matches = {} => emitted' = <<>>]_vars

\* C12: DELETE /api/coordinates empties only the coordinate sequence and
\* broadcasts exactly coordinates-cleared; DELETE /api/images empties only the
\* image sequence and broadcasts exactly images-cleared; the other two
\* sequences are unchanged.
C12_SingleClears ==
    [][/\ lastReq'.op = "deleteCoordinates" =>
             /\ coordinateHistory' = <<>>
             /\ UNCHANGED <<imageHistory, bannerDataHistory>>
             /\ emitted' = <<Event("coordinates-cleared", <<>>, 0)>>
             /\ \A c \in sockets : inbox'[c] = emitted'
       /\ lastReq'.op = "deleteImages" =>
             /\ imageHistory' = <<>>
             /\ UNCHANGED <<coordinateHistory, bannerDataHistory>>
             /\ emitted' = <<Event("images-cleared", <<>>, 0)>>
             /\ \A c \in sockets : inbox'[c] = emitted']_vars

\* DELETE /api/images with coordinates and a banner stored: both survive
C12_Witness ==
    /\ lastReq.op = "deleteImages"
    /\ imageHistory = <<>>
    /\ coordinateHistory # <<>>
    /\ bannerDataHistory # <<>>
    /\ sockets # {}
    /\ \A c \in sockets : inbox[c] = <<Event("images-cleared", <<>>, 0)>>

\* the banner sequence only grows at its end
BannersKept ==
    /\ Len(bannerDataHistory') >= Len(bannerDataHistory)
    /\ SubSeq(bannerDataHistory', 1, Len(bannerDataHistory)) = bannerDataHistory

\* C13 as stated: a stored banner record stays in the banner sequence, with
\* the same fields and in the same relative order, whatever operation follows.
C13_BannersNeverEvicted == [][BannersKept]_vars

\* C13 amended: every operation other than DELETE /api/all keeps the stored
\* banner records, with the same fields and in the same order.
C13_BannersKeptUntilDeleteAll ==
    [][lastReq'.op # "deleteAll" => BannersKept]_vars

\* a banner stored first is still first after a second banner, an image
\* clear and a coordinate clear
C13_Witness ==
    /\ lastReq.op = "deleteCoordinates"
    /\ Len(bannerDataHistory) = 2
    /\ bannerDataHistory[1].timestamp = 1
    /\ bannerDataHistory[2].timestamp > 1
    /\ imageHistory = <<>>

WriteOps ==
    {"postCoordinates", "postImage", "postBannerData",
     "deleteCoordinates", "deleteImages", "deleteAll"}

\* the step just taken handled a write request
Wrote == lastReq'.op \in WriteOps

\* the store and the response a write request leads to, from the store, the
\* clock and the request alone: the connections do not enter
Outcome(op, arg) ==
    CASE op = "postCoordinates" ->
           IF CoordinatesStatus(arg) = 200
           THEN [store |-> <<addCoordinate(coordinateHistory, coordinateData(arg, now + 1)),
                            imageHistory, bannerDataHistory>>,
                 response |-> Json(200, <<>>)]
           ELSE [store |-> store, response |-> Json(400, <<>>)]
      [] op = "postImage" ->
           IF Truthy(arg.imageUrl)
           THEN [store |-> <<coordinateHistory,
                            addImage(imageHistory, imageData(arg, now + 1)),
                            bannerDataHistory>>,
                 response |-> Json(200, <<>>)]
           ELSE [store |-> store, response |-> Json(400, <<>>)]
      [] op = "postBannerData" ->
           IF Truthy(arg.imageUrl) /\ Truthy(arg.brand)
              /\ Truthy(arg.position) /\ Truthy(arg.type)
           THEN LET rec == bannerData(arg, now + 1)
                    imageIndex == findIndex(imageHistory, arg.imageUrl)
                IN  [store |-> <<coordinateHistory,
                                 IF imageIndex # 0
                                 THEN attachBanner(imageHistory, imageIndex, rec)
                                 ELSE imageHistory,
                                 Append(bannerDataHistory, rec)>>,
                     response |-> Json(201, <<rec>>)]
           ELSE [store |-> store, response |-> Json(400, <<>>)]
      [] op = "deleteCoordinates" ->
           [store |-> <<(<<>>), imageHistory, bannerDataHistory>>,
            response |-> Json(200, <<>>)]
      [] op = "deleteImages" ->
           [store |-> <<coordinateHistory, <<>>, bannerDataHistory>>,
            response |-> Json(200, <<>>)]
      [] op = "deleteAll" ->
           [store |-> <<(<<>>), <<>>, <<>> >>, response |-> Json(200, <<>>)]

Falsy(v) == v \in {Undefined, Null, Str(""), Num(0)}

\* the step just taken rejected a write request
Rejected == Wrote /\ response'.status = 400

\* C16: a write request is rejected with 400 exactly when its validation
\* fails (coordinates not well-formed; imageUrl missing or empty; one of
\* imageUrl, brand, position, type missing or falsy); a rejected request
\* leaves the three sequences unchanged and emits nothing; after it every
\* request is still handled.
C16_RejectedWrites ==
    [][/\ lastReq'.op = "postCoordinates" =>
             ((response'.status = 400) <=> ~WellFormed(lastReq'.arg))
       /\ lastReq'.op = "postImage" =>
             ((response'.status = 400) <=> Falsy(lastReq'.arg.imageUrl))
       /\ lastReq'.op = "postBannerData" =>
             ((response'.status = 400) <=>
                 \/ Falsy(lastReq'.arg.imageUrl) \/ Falsy(lastReq'.arg.brand)
                 \/ Falsy(lastReq'.arg.position) \/ Falsy(lastReq'.arg.type))
       /\ Rejected =>
             /\ UNCHANGED <<store, sockets, now>>
             /\ emitted' = <<>>
             /\ \A c \in Clients : inbox'[c] = <<>>
       /\ (lastReq.op \in WriteOps /\ response.status = 400) =>
             /\ ENABLED GetCoordinates
             /\ ENABLED DeleteAll
             /\ \A b \in ImageBodies : ENABLED PostImage(b)]_vars

\* a banner POST is rejected while images and banners are stored and a
\* client is connected
C16_Witness ==
    /\ lastReq.op = "postBannerData"
    /\ response.status = 400
    /\ imageHistory # <<>>
    /\ bannerDataHistory # <<>>
    /\ sockets # {}
    /\ \A c \in Clients : inbox[c] = <<>>

\* the coordinate events among evs
CoordEvents(evs) ==
    SelectSeq(evs, LAMBDA e : e.name \in {"coordinate-history", "new-coordinate"})

\* the step just taken is an accepted POST /api/coordinates
CoordinateAccepted == lastReq'.op = "postCoordinates" /\ response'.status = 200

\* C17: a client gets each coordinate record once.  The stored records come
\* once, in the coordinate-history seed of its connect; a record accepted
\* while it is connected comes as one new-coordinate event; that record is
\* newer than every record stored, so it was in no earlier seed or push; no
\* other step delivers a coordinate event, so nothing is sent again.
C17_CoordinateOnce ==
    [][/\ \A i, j \in 1..Len(coordinateHistory) :
             i < j => coordinateHistory[i].timestamp < coordinateHistory[j].timestamp
       /\ \A c \in Clients :
             CoordEvents(inbox'[c]) =
                CASE lastReq'.op = "connection" /\ lastReq'.arg = c ->
                       IF coordinateHistory # <<>>
                       THEN <<Event("coordinate-history", coordinateHistory, c)>>
                       ELSE <<>>
                  [] CoordinateAccepted /\ c \in sockets ->
                       <<Event("new-coordinate",
                               <<coordinateHistory'[Len(coordinateHistory')]>>, 0)>>
                  [] OTHER -> <<>>
       /\ CoordinateAccepted =>
             LET rec == coordinateHistory'[Len(coordinateHistory')]
             IN  /\ rec.timestamp = now'
                 /\ \A i \in 1..Len(coordinateHistory) :
                       coordinateHistory[i].timestamp < rec.timestamp]_vars

\* with one record stored, a second is accepted while a client is connected:
\* the client gets the second record alone, as new-coordinate
C17_Witness ==
    /\ lastReq.op = "postCoordinates"
    /\ response.status = 200
    /\ Len(coordinateHistory) = 2
    /\ sockets # {}
    /\ \A c \in sockets :
          inbox[c] = <<Event("new-coordinate", <<coordinateHistory[2]>>, 0)>>

\* C18: the image list a connected client keeps from image-history and
\* images-cleared events equals the server's image sequence after its
\* connect and after every request.
C18_ImageViewInSync == \A c \in sockets : imageView[c] = imageHistory

\* a banner was just attached: the connected clients' lists show it
C18_Witness ==
    /\ lastReq.op = "postBannerData"
    /\ response.status = 201
    /\ sockets # {}
    /\ Len(imageHistory) = 2
    /\ bannerDataOf(imageHistory[1].metadata) = response.body
    /\ \A c \in sockets : imageView[c] = imageHistory

\* C19: an image carries metadata.bannerData only if it is a stored banner
\* for its url that was accepted after the image was stored; a newly posted
\* image carries none, also when a banner for its url is already stored.
C19_BannerAfterImage ==
    /\ \A i \in 1..Len(imageHistory) :
          LET img == imageHistory[i]
              attached == bannerDataOf(img.metadata)
          IN  attached # <<>> =>
                 /\ attached[1] \in Range(bannerDataHistory)
                 /\ attached[1].imageUrl = img.url
                 /\ attached[1].timestamp > img.timestamp
    /\ (lastReq.op = "postImage" /\ response.status = 200) =>
          bannerDataOf(imageHistory[1].metadata) = <<>>

\* the banner for "a" came first, the image "a" later: the GET by url
\* returns the banner and the image carries none
C19_Witness ==
    /\ lastReq.op = "getBannerDataFor"
    /\ lastReq.arg = Str("a")
    /\ response.status = 200
    /\ imageHistory # <<>>
    /\ imageHistory[1].url = Str("a")
    /\ imageHistory[1].metadata.t = "object"
    /\ imageHistory[1].timestamp > response.body[1].timestamp
    /\ bannerDataOf(imageHistory[1].metadata) = <<>>

\* the steps that show the store to a client: the GETs and the connect seed
ObservationOps ==
    {"getCoordinates", "getImages", "getBannerData", "getBannerDataFor", "connection"}

\* C14: no GET response and no connect seed is produced while a write
\* request stands between its mutation and its broadcast: whenever the last
\* step is a GET or a connect, no handler is part-way through.
C14_HandlersAtomic ==
    lastReq.op \in ObservationOps => pc = "idle"

\* GET /api/images right after a banner POST, taken statement by statement,
\* has attached the banner and broadcast the history
C14_Witness ==
    /\ lastReq.op = "getImages"
    /\ pc = "idle"
    /\ bannerDataHistory # <<>>
    /\ response.body # <<>>
    /\ bannerDataOf(response.body[1].metadata) = <<bannerDataHistory[Len(bannerDataHistory)]>>

====
